---- MODULE Spec2Model ----
(***************************************************************************)
(* Model of finance_tracker.py: Transaction, FinanceTracker (the ledger),  *)
(* Storage (the delimited file) and ReportingAndAnalysis (aggregates and   *)
(* exports).                                                               *)
(*                                                                         *)
(* Representation.                                                         *)
(*   - A str is the sequence of its code points, so that lower(), strip()  *)
(*     and the ordering of str are computed as Python computes them.       *)
(*   - A date string "YYYY-MM-DD" is the tuple <<y, m, d>> of its fields;  *)
(*     text that strptime cannot parse is a tuple that is no calendar day. *)
(*   - An amount is an exact decimal counted in thousandths (mills) in    *)
(*     Spec; in SpecFloat it is the binary64 float itself and += is the    *)
(*     float addition.  A 2-decimal numeral (the result of an f"{x:.2f}")  *)
(*     is the number of hundredths (cents).                                *)
(*   - A dict is the sequence of its <<key, value>> items in iteration     *)
(*     order.                                                              *)
(*   - The file named by `filename` is modelled as its sequence of lines   *)
(*     (every line newline-terminated); .csv and .tsv differ only in the   *)
(*     delimiter and are modelled once.                                    *)
(***************************************************************************)
EXTENDS Integers, Sequences, FiniteSets, TLC

(***************************************************************************)
(* Bounds of the model.                                                    *)
(***************************************************************************)
MaxEntries == 2

MaxInitRows == 1

\* the longest ledger of float amounts
MaxLedger == 3

(***************************************************************************)
(* str values used by the program and by the inputs.                       *)
(***************************************************************************)
STR_income == <<105, 110, 99, 111, 109, 101>>

STR_expense == <<101, 120, 112, 101, 110, 115, 101>>

STR_Income_sp == <<73, 110, 99, 111, 109, 101, 32>>

STR_EXPENSE == <<69, 88, 80, 69, 78, 83, 69>>

STR_tax == <<116, 97, 120>>

STR_a == <<97>>

STR_b == <<98>>

STR_B == <<66>>

STR_TxnType == <<84, 120, 110, 32, 84, 121, 112, 101>>

STR_Category == <<67, 97, 116, 101, 103, 111, 114, 121>>

Whitespace == {9, 10, 11, 12, 13, 32}

\* str.lower() on ASCII text
Lower(s) == [i \in 1..Len(s) |-> IF s[i] \in 65..90 THEN s[i] + 32 ELSE s[i]]

\* str.strip(): drop leading and trailing whitespace
Strip(s) ==
    LET idx == {i \in 1..Len(s) : s[i] \notin Whitespace}
    IN  IF idx = {} THEN <<>>
        ELSE LET lo == CHOOSE i \in idx : \A j \in idx : i <= j
                 hi == CHOOSE i \in idx : \A j \in idx : j <= i
             IN  SubSeq(s, lo, hi)

\* str.capitalize(): first character upper-cased, the rest lower-cased
Capitalize(s) ==
    [i \in 1..Len(s) |->
        IF i = 1 THEN (IF s[i] \in 97..122 THEN s[i] - 32 ELSE s[i])
        ELSE (IF s[i] \in 65..90 THEN s[i] + 32 ELSE s[i])]

\* Python's < on two str, and on two tuples of int: lexicographic
SeqLess(a, b) ==
    \/ \E i \in 1..Len(a) :
          /\ i <= Len(b)
          /\ a[i] < b[i]
          /\ \A j \in 1..(i - 1) : a[j] = b[j]
    \/ /\ Len(a) < Len(b)
       /\ \A j \in 1..Len(a) : a[j] = b[j]

(***************************************************************************)
(* sorted(): a stable sort, by insertion of each element after the         *)
(* elements that are not greater than it.  less[i][j] tells whether        *)
(* items[i] < items[j] in the order sorted by.                             *)
(***************************************************************************)
SortedIndices(n, less) ==
    LET f[i \in 0..n] ==
            IF i = 0 THEN <<>>
            ELSE LET done == f[i - 1]
                     k == Cardinality({p \in 1..Len(done) : ~less[i][done[p]]})
                 IN  SubSeq(done, 1, k) \o <<i>> \o SubSeq(done, k + 1, Len(done))
    IN  f[n]

Sorted(items, less) ==
    LET order == SortedIndices(Len(items), less)
    IN  [p \in 1..Len(items) |-> items[order[p]]]

(***************************************************************************)
(* Dates: datetime.strptime(s, "%Y-%m-%d") and strftime("%Y-%m-%d").       *)
(***************************************************************************)
IsLeap(y) == (y % 4 = 0 /\ y % 100 # 0) \/ y % 400 = 0

DaysInMonth(y, m) ==
    IF m = 2 THEN (IF IsLeap(y) THEN 29 ELSE 28)
    ELSE IF m \in {4, 6, 9, 11} THEN 30 ELSE 31

ValidDateStr(s) ==
    /\ Len(s) = 3
    /\ s[1] \in 1..9999
    /\ s[2] \in 1..12
    /\ s[3] \in 1..DaysInMonth(s[1], s[2])

\* the datetime that strptime returns; applied only where ValidDateStr holds
Strptime(s) == [year |-> s[1], month |-> s[2], day |-> s[3]]

Strftime(d) == <<d.year, d.month, d.day>>

DateLess(d, e) == SeqLess(Strftime(d), Strftime(e))

DateLeq(d, e) == d = e \/ DateLess(d, e)

(***************************************************************************)
(* Amounts: round(x, 2) and f"{x:.2f}" (round to nearest, ties to even).   *)
(* The amounts among the inputs never sum to a tie, where the result would *)
(* depend on the binary representation of the float.                       *)
(***************************************************************************)
Format2(mills) ==
    LET q == mills \div 10
        r == mills % 10
    IN  IF r < 5 THEN q
        ELSE IF r > 5 THEN q + 1
        ELSE IF q % 2 = 0 THEN q ELSE q + 1

Round2(mills) == 10 * Format2(mills)

(***************************************************************************)
(* Transaction.__init__: raises ValueError when the date does not parse.   *)
(***************************************************************************)
TransactionOk(date, txn_type, amount, category) == ValidDateStr(date)

Transaction(date, txn_type, amount, category) ==
    [date     |-> Strptime(date),
     txn_type |-> Lower(Strip(txn_type)),
     amount   |-> amount,
     category |-> category]

(***************************************************************************)
(* Storage.  A line of the file is the list of its cells.                  *)
(***************************************************************************)
NotADate == <<0, 0, 0>>

titlenames ==
    [ncols    |-> 4,
     date     |-> NotADate,
     kind     |-> STR_TxnType,
     amount   |-> [num |-> FALSE, mills |-> 0],
     category |-> STR_Category]

NoFile == [exists |-> FALSE, lines |-> <<>>]

\* one pass of the body of the for loop of read_transaction
RowOk(line) ==
    /\ line.ncols >= 4
    /\ line.amount.num
    /\ TransactionOk(line.date, line.kind, Round2(line.amount.mills), line.category)

RowTxn(line) ==
    Transaction(line.date, line.kind, Round2(line.amount.mills), line.category)

RowError(line) ==
    IF line.ncols < 3 THEN "IndexError"
    ELSE IF ~line.amount.num THEN "ValueError"
    ELSE IF line.ncols < 4 THEN "IndexError"
    ELSE "ValueError"

RECURSIVE ReadRows(_, _)
ReadRows(rows, txns) ==
    IF rows = <<>> THEN [err |-> "none", transactions |-> txns]
    ELSE IF RowOk(Head(rows))
         THEN ReadRows(Tail(rows), Append(txns, RowTxn(Head(rows))))
         ELSE [err |-> RowError(Head(rows)), transactions |-> txns]

\* the ledger after read_transaction(filename), and the exception raised
read_transaction(f, txns) ==
    IF ~f.exists THEN [err |-> "FileNotFoundError", transactions |-> txns]
    ELSE IF f.lines = <<>> THEN [err |-> "StopIteration", transactions |-> txns]
    ELSE ReadRows(Tail(f.lines), txns)

TxnRow(txn) ==
    [ncols    |-> 4,
     date     |-> Strftime(txn.date),
     kind     |-> txn.txn_type,
     amount   |-> [num |-> TRUE, mills |-> 10 * Format2(txn.amount)],
     category |-> txn.category]

append_transaction(f, txn) ==
    LET file_is_new == ~f.exists
    IN  [exists |-> TRUE,
         lines  |-> f.lines
                    \o (IF file_is_new THEN <<titlenames>> ELSE <<>>)
                    \o <<TxnRow(txn)>>]

(***************************************************************************)
(* FinanceTracker: the ledger operations, as functions of the list         *)
(* self.transactions.                                                      *)
(***************************************************************************)
None == <<>>

add_transaction(txns, transaction) == Append(txns, transaction)

\* the value of an accumulator after `for transaction in txns: if
\* transaction.txn_type == kind: acc += transaction.amount`
SumOfType(txns, kind) ==
    LET f[i \in 0..Len(txns)] ==
            IF i = 0 THEN 0
            ELSE IF txns[i].txn_type = kind THEN f[i - 1] + txns[i].amount
            ELSE f[i - 1]
    IN  f[Len(txns)]

calc_current_balance(txns) ==
    Format2(SumOfType(txns, STR_income) - SumOfType(txns, STR_expense))

get_total_income(txns) == Format2(SumOfType(txns, STR_income))

get_total_expenses(txns) == Format2(SumOfType(txns, STR_expense))

category_filter(txns, category) ==
    SelectSeq(txns, LAMBDA t : t.category = category)

\* DateMatch with the end of the range excluded
DateMatchEndExcluded(t, date1, date2) ==
    IF date2 = None THEN t.date = Strptime(date1)
    ELSE DateLeq(Strptime(date1), t.date) /\ DateLess(t.date, Strptime(date2))

\* the test that the three date filters apply to one transaction
DateMatch(t, date1, date2) ==
    IF date2 = None THEN t.date = Strptime(date1)
    ELSE DateLeq(Strptime(date1), t.date) /\ DateLeq(t.date, Strptime(date2))

\* strptime of an argument raises ValueError; it is called inside the loop,
\* for the transactions that pass the filter on kind or category
DateArgsBad(date1, date2) ==
    ~ValidDateStr(date1) \/ (date2 # None /\ ~ValidDateStr(date2))

\* key=lambda txn: txn.date
ByDate(txns) ==
    [i \in 1..Len(txns) |-> [j \in 1..Len(txns) |-> DateLess(txns[i].date, txns[j].date)]]

SortedByDate(txns) == Sorted(txns, ByDate(txns))

date_filter_raises(txns, date1, date2) ==
    txns # <<>> /\ DateArgsBad(date1, date2)

date_filter(txns, date1, date2) ==
    SortedByDate(SelectSeq(txns, LAMBDA t : DateMatch(t, date1, date2)))

date_filter_by_type_raises(txns, date1, date2, filter) ==
    (\E i \in 1..Len(txns) : txns[i].txn_type = filter) /\ DateArgsBad(date1, date2)

date_filter_by_type(txns, date1, date2, filter) ==
    SortedByDate(SelectSeq(txns,
                           LAMBDA t : t.txn_type = filter /\ DateMatch(t, date1, date2)))

date_income_filter(txns, date1, date2) ==
    date_filter_by_type(txns, date1, date2, STR_income)

date_expense_filter(txns, date1, date2) ==
    date_filter_by_type(txns, date1, date2, STR_expense)

date_category_filter_raises(txns, date1, date2, category) ==
    (\E i \in 1..Len(txns) : txns[i].category = category) /\ DateArgsBad(date1, date2)

date_category_filter(txns, date1, date2, category) ==
    SortedByDate(SelectSeq(txns,
                           LAMBDA t : t.category = category /\ DateMatch(t, date1, date2)))

(***************************************************************************)
(* dict operations on a sequence of <<key, value>> items.                  *)
(***************************************************************************)
DictHas(d, k) == \E i \in 1..Len(d) : d[i][1] = k

DictGet(d, k) == d[CHOOSE i \in 1..Len(d) : d[i][1] = k][2]

DictKeys(d) == [i \in 1..Len(d) |-> d[i][1]]

\* d[k] = v
DictSet(d, k, v) ==
    IF DictHas(d, k)
    THEN [i \in 1..Len(d) |-> IF d[i][1] = k THEN <<k, v>> ELSE d[i]]
    ELSE Append(d, <<k, v>>)

\* if k in d: d[k] += v  else: d[k] = v
DictAdd(d, k, v) ==
    IF DictHas(d, k) THEN DictSet(d, k, DictGet(d, k) + v) ELSE DictSet(d, k, v)

\* the order of sorted(d.items()) for each of the three key types
MonthItemLess(a, b) ==
    SeqLess(a[1], b[1]) \/ (a[1] = b[1] /\ a[2] < b[2])

MonthCatKeyLess(k, l) ==
    SeqLess(k[1], l[1]) \/ (k[1] = l[1] /\ SeqLess(k[2], l[2]))

MonthCatItemLess(a, b) ==
    MonthCatKeyLess(a[1], b[1]) \/ (a[1] = b[1] /\ a[2] < b[2])

CatItemLess(a, b) ==
    SeqLess(a[1], b[1]) \/ (a[1] = b[1] /\ a[2] < b[2])

\* dict(sorted(d.items())) for each of the three key types
SortedMonthItems(d) ==
    Sorted(d, [i \in 1..Len(d) |-> [j \in 1..Len(d) |-> MonthItemLess(d[i], d[j])]])

SortedMonthCatItems(d) ==
    Sorted(d, [i \in 1..Len(d) |-> [j \in 1..Len(d) |-> MonthCatItemLess(d[i], d[j])]])

SortedCatItems(d) ==
    Sorted(d, [i \in 1..Len(d) |-> [j \in 1..Len(d) |-> CatItemLess(d[i], d[j])]])

(***************************************************************************)
(* ReportingAndAnalysis: the aggregates, as functions of the ledger that   *)
(* _sync_transactions leaves.                                              *)
(***************************************************************************)
\* _sync_transactions that never reads the file
sync_transactions_never(use, f, txns) ==
    [err |-> "none", transactions |-> txns]

\* _sync_transactions without `self.tracker.transactions = []`
sync_transactions_no_clear(use, f, txns) ==
    IF use THEN read_transaction(f, txns)
    ELSE [err |-> "none", transactions |-> txns]

sync_transactions(use, f, txns) ==
    IF use THEN read_transaction(f, <<>>)
    ELSE [err |-> "none", transactions |-> txns]

MonthOf(txn) == <<txn.date.year, txn.date.month>>

\* _monthly_basis without the final sort
monthly_basis_unsorted(all_txn, txn_type) ==
    LET months_dict[i \in 0..Len(all_txn)] ==
            IF i = 0 THEN <<>>
            ELSE IF all_txn[i].txn_type = txn_type
                 THEN DictAdd(months_dict[i - 1], MonthOf(all_txn[i]), all_txn[i].amount)
                 ELSE months_dict[i - 1]
    IN  months_dict[Len(all_txn)]

monthly_basis(all_txn, txn_type) ==
    LET months_dict[i \in 0..Len(all_txn)] ==
            IF i = 0 THEN <<>>
            ELSE IF all_txn[i].txn_type = txn_type
                 THEN DictAdd(months_dict[i - 1], MonthOf(all_txn[i]), all_txn[i].amount)
                 ELSE months_dict[i - 1]
    IN  SortedMonthItems(months_dict[Len(all_txn)])

monthly_income(all_txn) == monthly_basis(all_txn, STR_income)

monthly_expenses(all_txn) == monthly_basis(all_txn, STR_expense)

\* monthly_net_savings that keeps the months without expenses
monthly_net_savings_zero_fill(all_txn) ==
    LET income_dict   == monthly_income(all_txn)
        expenses_dict == monthly_expenses(all_txn)
    IN  [i \in 1..Len(income_dict) |->
            IF DictHas(expenses_dict, income_dict[i][1])
            THEN <<income_dict[i][1],
                   income_dict[i][2] - DictGet(expenses_dict, income_dict[i][1])>>
            ELSE income_dict[i]]

monthly_net_savings(all_txn) ==
    LET income_dict   == monthly_income(all_txn)
        expenses_dict == monthly_expenses(all_txn)
        inner(d, item) ==
            LET g[j \in 0..Len(expenses_dict)] ==
                    IF j = 0 THEN d
                    ELSE IF item[1] = expenses_dict[j][1]
                         THEN DictSet(g[j - 1], item[1], item[2] - expenses_dict[j][2])
                         ELSE g[j - 1]
            IN  g[Len(expenses_dict)]
        months_dict[i \in 0..Len(income_dict)] ==
            IF i = 0 THEN <<>> ELSE inner(months_dict[i - 1], income_dict[i])
    IN  SortedMonthItems(months_dict[Len(income_dict)])

monthly_categories_basis(all_txn, txn_type) ==
    LET months_dict[i \in 0..Len(all_txn)] ==
            IF i = 0 THEN <<>>
            ELSE IF all_txn[i].txn_type = txn_type
                 THEN DictAdd(months_dict[i - 1],
                              <<MonthOf(all_txn[i]), all_txn[i].category>>,
                              all_txn[i].amount)
                 ELSE months_dict[i - 1]
    IN  SortedMonthCatItems(months_dict[Len(all_txn)])

monthly_income_categories(all_txn) == monthly_categories_basis(all_txn, STR_income)

monthly_expenses_categories(all_txn) == monthly_categories_basis(all_txn, STR_expense)

\* _totals_each_txn_type_category with `=` in place of `+=`
totals_each_txn_type_category_overwrite(all_txn, txn_type) ==
    LET txn_dict[i \in 0..Len(all_txn)] ==
            IF i = 0 THEN <<>>
            ELSE IF all_txn[i].txn_type = txn_type
                 THEN DictSet(txn_dict[i - 1], all_txn[i].category, all_txn[i].amount)
                 ELSE txn_dict[i - 1]
    IN  SortedCatItems(txn_dict[Len(all_txn)])

totals_each_txn_type_category(all_txn, txn_type) ==
    LET txn_dict[i \in 0..Len(all_txn)] ==
            IF i = 0 THEN <<>>
            ELSE IF all_txn[i].txn_type = txn_type
                 THEN DictAdd(txn_dict[i - 1], all_txn[i].category, all_txn[i].amount)
                 ELSE txn_dict[i - 1]
    IN  SortedCatItems(txn_dict[Len(all_txn)])

totals_each_income_category(all_txn) ==
    totals_each_txn_type_category(all_txn, STR_income)

totals_each_expense_category(all_txn) ==
    totals_each_txn_type_category(all_txn, STR_expense)

(***************************************************************************)
(* The rows written by the exports.  A row is the list of its cells; the   *)
(* cells of every kind of row are the fields of one record:                *)
(*   label  the literal text of the cell that holds text ("" when none),   *)
(*   date, date2  the date(s) shown (<<>> when none; <<y, m>> for a month),*)
(*   kind, cat    the txn_type and category cells (<<>> when none),        *)
(*   value, fmt   the number shown: "2f" for a 2-decimal numeral (cents),  *)
(*                "raw" for an unformatted float (mills), "" when none.    *)
(***************************************************************************)
BlankRow ==
    [label |-> "", date |-> <<>>, date2 |-> <<>>, kind |-> <<>>, cat |-> <<>>,
     value |-> 0, fmt |-> ""]

HeaderRow(text) == [BlankRow EXCEPT !.label = text]

TotalRow(text, cents) == [BlankRow EXCEPT !.label = text, !.value = cents, !.fmt = "2f"]

\* [f"{calendar.month_name[m]} {y}:", total]; suffix is ":" or ""
MonthRow(suffix, item) ==
    [BlankRow EXCEPT !.label = suffix, !.date = item[1], !.value = item[2], !.fmt = "raw"]

CatRow(item) ==
    [BlankRow EXCEPT !.cat = item[1], !.value = Format2(item[2]), !.fmt = "2f"]

MonthCatRow(item) ==
    [BlankRow EXCEPT !.cat = item[1][2], !.date = item[1][1], !.value = item[2],
                     !.fmt = "raw"]

FilterRow(txn) ==
    [BlankRow EXCEPT !.date = Strftime(txn.date), !.kind = txn.txn_type,
                     !.value = Format2(txn.amount), !.fmt = "2f",
                     !.cat = txn.category]

MonthRows(suffix, d) == [i \in 1..Len(d) |-> MonthRow(suffix, d[i])]

CatRows(d) == [i \in 1..Len(d) |-> CatRow(d[i])]

MonthCatRows(d) == [i \in 1..Len(d) |-> MonthCatRow(d[i])]

FilterRows(txns) == [i \in 1..Len(txns) |-> FilterRow(txns[i])]

export_analysis_skip_empty(txns) ==
    LET Sec(text, rows) == IF rows = <<>> THEN <<>>
                           ELSE <<BlankRow, HeaderRow(text)>> \o rows
    IN  <<TotalRow("Current Balance:", calc_current_balance(txns)),
          TotalRow("Total Income:", get_total_income(txns)),
          TotalRow("Total Expenses:", get_total_expenses(txns))>>
        \o Sec("Monthly Net Savings", MonthRows(":", monthly_net_savings(txns)))
        \o Sec("Monthly Income", MonthRows(":", monthly_income(txns)))
        \o Sec("Monthly Expenses", MonthRows("", monthly_expenses(txns)))
        \o Sec("Totals for Each Income Category",
               CatRows(totals_each_income_category(txns)))
        \o Sec("Totals for Each Expense Category",
               CatRows(totals_each_expense_category(txns)))
        \o Sec("Monthly Income by Category",
               MonthCatRows(monthly_income_categories(txns)))
        \o Sec("Monthly Expenses by Category",
               MonthCatRows(monthly_expenses_categories(txns)))

export_analysis(txns) ==
    <<TotalRow("Current Balance:", calc_current_balance(txns)),
      TotalRow("Total Income:", get_total_income(txns)),
      TotalRow("Total Expenses:", get_total_expenses(txns))>>
    \o <<BlankRow, HeaderRow("Monthly Net Savings")>>
    \o MonthRows(":", monthly_net_savings(txns))
    \o <<BlankRow, HeaderRow("Monthly Income")>>
    \o MonthRows(":", monthly_income(txns))
    \o <<BlankRow, HeaderRow("Monthly Expenses")>>
    \o MonthRows("", monthly_expenses(txns))
    \o <<BlankRow, HeaderRow("Totals for Each Income Category")>>
    \o CatRows(totals_each_income_category(txns))
    \o <<BlankRow, HeaderRow("Totals for Each Expense Category")>>
    \o CatRows(totals_each_expense_category(txns))
    \o <<BlankRow, HeaderRow("Monthly Income by Category")>>
    \o MonthCatRows(monthly_income_categories(txns))
    \o <<BlankRow, HeaderRow("Monthly Expenses by Category")>>
    \o MonthCatRows(monthly_expenses_categories(txns))

DateHeaderAlwaysOn(on, fromto, cat, date1, date2) ==
    [BlankRow EXCEPT !.label = on, !.cat = cat, !.date = date1, !.date2 = date2]

\* the header of a date section: f"... on {date1}" when date2 is None,
\* f"... from {date1} to {date2}" otherwise
DateHeader(on, fromto, cat, date1, date2) ==
    [BlankRow EXCEPT !.label = (IF date2 = None THEN on ELSE fromto),
                     !.cat = cat, !.date = date1, !.date2 = date2]

export_filters_raises(txns, category, date1, date2) ==
    \/ date_filter_raises(txns, date1, date2)
    \/ date_filter_by_type_raises(txns, date1, date2, STR_income)
    \/ date_filter_by_type_raises(txns, date1, date2, STR_expense)
    \/ date_category_filter_raises(txns, date1, date2, category)

export_filters(txns, category, date1, date2) ==
    <<[BlankRow EXCEPT !.label = "Transactions filter:", !.cat = category]>>
    \o FilterRows(category_filter(txns, category))
    \o <<BlankRow, DateHeader("Transactions on", "Transactions from to", <<>>, date1, date2)>>
    \o FilterRows(date_filter(txns, date1, date2))
    \o <<BlankRow, DateHeader("Income transactions on", "Income transactions from to", <<>>, date1, date2)>>
    \o FilterRows(date_income_filter(txns, date1, date2))
    \o <<BlankRow, DateHeader("Expense transactions on", "Expense transactions from to", <<>>, date1, date2)>>
    \o FilterRows(date_expense_filter(txns, date1, date2))
    \o <<BlankRow, DateHeader("transactions on", "transactions from to",
                     Capitalize(category), date1, date2)>>
    \o FilterRows(date_category_filter(txns, date1, date2, category))

(***************************************************************************)
(* Inputs.                                                                 *)
(***************************************************************************)
\* what the user types at the prompts of main for one transaction
ManualInputs ==
    { [date |-> <<2023, 12, 31>>, txn_type |-> STR_income,  amount |-> 1004,
       category |-> STR_a],
      [date |-> <<2024, 1, 5>>,   txn_type |-> STR_EXPENSE, amount |-> 6,
       category |-> STR_B] }

FileLine(date, kind, mills, category) ==
    [ncols |-> 4, date |-> date, kind |-> kind,
     amount |-> [num |-> TRUE, mills |-> mills], category |-> category]

\* data lines a file may hold before the program starts
FileRows ==
    { FileLine(<<2024, 1, 5>>,  STR_Income_sp, 100000, STR_B),
      FileLine(<<2024, 1, 10>>, STR_expense,   20000,  STR_a),
      FileLine(<<2024, 2, 1>>,  STR_tax,       5000,   STR_b),
      FileLine(<<2024, 2, 30>>, STR_expense,   7000,   STR_a) }

RowSeqs == UNION { [1..n -> FileRows] : n \in 0..MaxInitRows }

\* a file whose second data line has a date that strptime rejects
PartlyReadableFile ==
    [exists |-> TRUE,
     lines  |-> <<titlenames,
                  FileLine(<<2024, 1, 5>>,  STR_Income_sp, 100000, STR_B),
                  FileLine(<<2024, 2, 30>>, STR_expense,   7000,   STR_a)>>]

InitFiles ==
    {NoFile, PartlyReadableFile}
    \cup { [exists |-> TRUE, lines |-> rows] : rows \in RowSeqs }
    \cup { [exists |-> TRUE, lines |-> <<titlenames>> \o rows] : rows \in RowSeqs }

\* arguments of the filters
DateArgs == { <<2024, 1, 5>>, <<2024, 1, 10>> }

\* a date argument that strptime rejects ("2024-02-30")
MalformedDate == <<2024, 2, 30>>

CategoryArgs == { STR_a, STR_b, STR_B }

AggregateOps ==
    { "monthly_income", "monthly_expenses", "monthly_net_savings",
      "monthly_income_categories", "monthly_expenses_categories",
      "totals_each_income_category", "totals_each_expense_category" }

(***************************************************************************)
(* State.                                                                  *)
(***************************************************************************)
VARIABLES
    transactions,   \* tracker.transactions
    file,           \* the file named by filename
    use_file,       \* report.use_file
    pc,             \* "start": before the report object is built; "run";
                    \* "crashed": main ended by an uncaught exception
    entered,        \* number of transactions entered at the prompts
    last            \* the last call of a report or ledger operation, when no
                    \* transaction was entered since: its name, arguments,
                    \* exception and result

vars == <<transactions, file, use_file, pc, entered, last>>

NoCall == [op |-> "none", args |-> <<>>, err |-> "none", result |-> <<>>, again |-> FALSE]

\* again: the call is of an aggregate and the call before it was of the same
\* aggregate, with nothing in between
Call(op, args, err, result) ==
    [op |-> op, args |-> args, err |-> err, result |-> result,
     again |-> (op \in AggregateOps /\ last.op = op)]

Init ==
    /\ transactions = <<>>
    /\ file \in InitFiles
    /\ use_file = FALSE
    /\ pc = "start"
    /\ entered = 0
    /\ last = NoCall

(***************************************************************************)
(* main: the user names an existing file, which is loaded.                 *)
(* FileNotFoundError is caught and the name is asked again; any other      *)
(* exception ends the program.                                             *)
(***************************************************************************)
LoadFile ==
    /\ pc = "start"
    /\ file.exists
    /\ LET r == read_transaction(file, transactions)
       IN  /\ transactions' = r.transactions
           /\ IF r.err = "none"
              THEN use_file' = TRUE /\ pc' = "run"
              ELSE use_file' = use_file /\ pc' = "crashed"
           /\ last' = Call("read_transaction", <<>>, r.err, <<>>)
    /\ UNCHANGED <<file, entered>>

\* main: the user has no file; transactions entered later are saved to `file`
NoExistingFile ==
    /\ pc = "start"
    /\ use_file' = FALSE
    /\ pc' = "run"
    /\ UNCHANGED <<transactions, file, entered, last>>

(***************************************************************************)
(* main: one pass of the input loop.  A date that does not parse and a     *)
(* type other than income/expense are asked again, so the pass completes   *)
(* only with valid ones.                                                   *)
(***************************************************************************)
EnterTransaction(in) ==
    /\ pc = "run"
    /\ entered < MaxEntries
    /\ ValidDateStr(in.date)
    /\ LET txn_type == Lower(in.txn_type)
           category == Lower(in.category)
       IN  /\ txn_type \in {STR_income, STR_expense}
           /\ LET new_txn == Transaction(in.date, txn_type, in.amount, category)
              IN  /\ transactions' = add_transaction(transactions, new_txn)
                  /\ file' = append_transaction(file, new_txn)
    /\ entered' = entered + 1
    /\ last' = NoCall
    /\ UNCHANGED <<use_file, pc>>

(***************************************************************************)
(* ReportingAndAnalysis: every aggregate syncs, then computes.             *)
(***************************************************************************)
AggregateResult(op, txns) ==
    CASE op = "monthly_income"               -> monthly_income(txns)
      [] op = "monthly_expenses"             -> monthly_expenses(txns)
      [] op = "monthly_net_savings"          -> monthly_net_savings(txns)
      [] op = "monthly_income_categories"    -> monthly_income_categories(txns)
      [] op = "monthly_expenses_categories"  -> monthly_expenses_categories(txns)
      [] op = "totals_each_income_category"  -> totals_each_income_category(txns)
      [] op = "totals_each_expense_category" -> totals_each_expense_category(txns)

Aggregate(op) ==
    /\ pc = "run"
    /\ LET s == sync_transactions(use_file, file, transactions)
       IN  /\ transactions' = s.transactions
           /\ last' = IF s.err = "none"
                      THEN Call(op, <<>>, "none", AggregateResult(op, s.transactions))
                      ELSE Call(op, <<>>, s.err, <<>>)
    /\ UNCHANGED <<file, use_file, pc, entered>>

\* the three functions that take txn_type, called with any str
BasisOps == {"monthly_basis", "monthly_categories_basis", "totals_each_txn_type_category"}

BasisResult(op, txns, txn_type) ==
    CASE op = "monthly_basis"                 -> monthly_basis(txns, txn_type)
      [] op = "monthly_categories_basis"      -> monthly_categories_basis(txns, txn_type)
      [] op = "totals_each_txn_type_category" -> totals_each_txn_type_category(txns, txn_type)

Basis(op, txn_type) ==
    /\ pc = "run"
    /\ LET s == sync_transactions(use_file, file, transactions)
       IN  /\ transactions' = s.transactions
           /\ last' = IF s.err = "none"
                      THEN Call(op, <<txn_type>>, "none",
                                BasisResult(op, s.transactions, txn_type))
                      ELSE Call(op, <<txn_type>>, s.err, <<>>)
    /\ UNCHANGED <<file, use_file, pc, entered>>

ExportAnalysis ==
    /\ pc = "run"
    /\ LET s == sync_transactions(use_file, file, transactions)
       IN  /\ transactions' = s.transactions
           /\ last' = IF s.err = "none"
                      THEN Call("export_analysis", <<>>, "none",
                                export_analysis(s.transactions))
                      ELSE Call("export_analysis", <<>>, s.err, <<>>)
    /\ UNCHANGED <<file, use_file, pc, entered>>

ExportFilters(category, date1, date2) ==
    /\ pc = "run"
    /\ LET s == sync_transactions(use_file, file, transactions)
           args == <<category, date1, date2>>
       IN  /\ transactions' = s.transactions
           /\ last' = IF s.err # "none"
                      THEN Call("export_filters", args, s.err, <<>>)
                      ELSE IF export_filters_raises(s.transactions, category, date1, date2)
                      THEN Call("export_filters", args, "ValueError", <<>>)
                      ELSE Call("export_filters", args, "none",
                                export_filters(s.transactions, category, date1, date2))
    /\ UNCHANGED <<file, use_file, pc, entered>>

(***************************************************************************)
(* FinanceTracker: the ledger operations, called on the current ledger.    *)
(***************************************************************************)
Totals ==
    /\ pc = "run"
    /\ last' = Call("totals", <<>>, "none",
                    [balance  |-> calc_current_balance(transactions),
                     income   |-> get_total_income(transactions),
                     expenses |-> get_total_expenses(transactions)])
    /\ UNCHANGED <<transactions, file, use_file, pc, entered>>

CategoryFilter(category) ==
    /\ pc = "run"
    /\ last' = Call("category_filter", <<category>>, "none",
                    category_filter(transactions, category))
    /\ UNCHANGED <<transactions, file, use_file, pc, entered>>

DateFilter(date1, date2) ==
    /\ pc = "run"
    /\ last' = IF date_filter_raises(transactions, date1, date2)
               THEN Call("date_filter", <<date1, date2>>, "ValueError", <<>>)
               ELSE Call("date_filter", <<date1, date2>>, "none",
                         date_filter(transactions, date1, date2))
    /\ UNCHANGED <<transactions, file, use_file, pc, entered>>

Next ==
    \/ LoadFile
    \/ NoExistingFile
    \/ \E in \in ManualInputs : EnterTransaction(in)
    \/ \E op \in AggregateOps : Aggregate(op)
    \/ ExportAnalysis
    \/ \E d2 \in {None, <<2024, 1, 10>>} : ExportFilters(STR_a, <<2024, 1, 5>>, d2)
    \/ Totals
    \/ \E c \in CategoryArgs : CategoryFilter(c)
    \/ \E d1 \in DateArgs, d2 \in DateArgs \cup {None} : DateFilter(d1, d2)
    \/ DateFilter(MalformedDate, None)
    \/ \E op \in BasisOps : Basis(op, STR_tax)

Spec == Init /\ [][Next]_vars

(***************************************************************************)
(* Python floats: IEEE 754 binary64, round to nearest, ties to even.       *)
(* A positive normal float is [exp, frac] as float.hex() prints it:        *)
(* 0x1.<13 hex digits of frac>p<exp>.  Zero, subnormals, infinities and    *)
(* negative values do not occur among sums of positive amounts.            *)
(***************************************************************************)
Float(exp, frac) == [exp |-> exp, frac |-> frac]

Zeros(n) == [i \in 1..n |-> 0]

\* the 53 bits of the significand, most significant first
Significand(x) ==
    [i \in 1..53 |->
        IF i = 1 THEN 1
        ELSE LET h == x.frac[(i - 2) \div 4 + 1]
                 p == (i - 2) % 4
             IN  CASE p = 0 -> h \div 8
                   [] p = 1 -> (h \div 4) % 2
                   [] p = 2 -> (h \div 2) % 2
                   [] p = 3 -> h % 2]

\* the sum of two bit strings of equal length n, in n + 1 bits
AddBits(X, Y) ==
    LET n == Len(X)
        carry[i \in 0..n] ==
            IF i = n THEN 0 ELSE (X[i + 1] + Y[i + 1] + carry[i + 1]) \div 2
    IN  <<carry[0]>> \o [i \in 1..n |-> (X[i] + Y[i] + carry[i]) % 2]

\* the float whose significand is the 53 bits b and whose exponent is exp
FromBits(exp, b) ==
    Float(exp, [j \in 1..13 |->
                   8 * b[4 * j - 2] + 4 * b[4 * j - 1] + 2 * b[4 * j] + b[4 * j + 1]])

\* bits (first bit 1, at least 53 of them, the first one worth 2^exp)
\* rounded to 53 bits, to nearest, ties to even
RoundBits(exp, bits) ==
    LET keep == SubSeq(bits, 1, 53)
        rest == SubSeq(bits, 54, Len(bits))
        up   == /\ rest # <<>>
                /\ rest[1] = 1
                /\ \/ \E i \in 2..Len(rest) : rest[i] = 1
                   \/ keep[53] = 1
        inc  == AddBits(keep, Zeros(52) \o <<1>>)
    IN  IF ~up THEN FromBits(exp, keep)
        ELSE IF inc[1] = 1 THEN FromBits(exp + 1, SubSeq(inc, 1, 53))
        ELSE FromBits(exp, Tail(inc))

\* x + y
FAdd(x, y) ==
    LET hi  == IF x.exp >= y.exp THEN x ELSE y
        lo  == IF x.exp >= y.exp THEN y ELSE x
        d   == hi.exp - lo.exp
        sum == AddBits(Significand(hi) \o Zeros(d), Zeros(d) \o Significand(lo))
    IN  IF sum[1] = 1 THEN RoundBits(hi.exp + 1, sum)
        ELSE RoundBits(hi.exp, Tail(sum))


\* float("0.1"), float("0.3"), float("0.7")
float_0_1 == Float(-4, <<9, 9, 9, 9, 9, 9, 9, 9, 9, 9, 9, 9, 10>>)

float_0_3 == Float(-2, <<3, 3, 3, 3, 3, 3, 3, 3, 3, 3, 3, 3, 3>>)

float_0_7 == Float(-1, <<6, 6, 6, 6, 6, 6, 6, 6, 6, 6, 6, 6, 6>>)

(***************************************************************************)
(* The three aggregates of ReportingAndAnalysis on a ledger whose amounts  *)
(* are floats, with `+=` the float addition.                               *)
(***************************************************************************)
\* if k in d: d[k] += v  else: d[k] = v
DictAddFloat(d, k, v) ==
    IF DictHas(d, k) THEN DictSet(d, k, FAdd(DictGet(d, k), v)) ELSE DictSet(d, k, v)

monthly_basis_float(all_txn, txn_type) ==
    LET months_dict[i \in 0..Len(all_txn)] ==
            IF i = 0 THEN <<>>
            ELSE IF all_txn[i].txn_type = txn_type
                 THEN DictAddFloat(months_dict[i - 1], MonthOf(all_txn[i]),
                                   all_txn[i].amount)
                 ELSE months_dict[i - 1]
    IN  SortedMonthItems(months_dict[Len(all_txn)])

monthly_categories_basis_float(all_txn, txn_type) ==
    LET months_dict[i \in 0..Len(all_txn)] ==
            IF i = 0 THEN <<>>
            ELSE IF all_txn[i].txn_type = txn_type
                 THEN DictAddFloat(months_dict[i - 1],
                                   <<MonthOf(all_txn[i]), all_txn[i].category>>,
                                   all_txn[i].amount)
                 ELSE months_dict[i - 1]
    IN  SortedMonthCatItems(months_dict[Len(all_txn)])

totals_each_txn_type_category_float(all_txn, txn_type) ==
    LET txn_dict[i \in 0..Len(all_txn)] ==
            IF i = 0 THEN <<>>
            ELSE IF all_txn[i].txn_type = txn_type
                 THEN DictAddFloat(txn_dict[i - 1], all_txn[i].category,
                                   all_txn[i].amount)
                 ELSE txn_dict[i - 1]
    IN  SortedCatItems(txn_dict[Len(all_txn)])

\* transactions handed to add_transaction, amounts as floats
FloatInputs ==
    { Transaction(<<2024, 1, 5>>, STR_income, float_0_1, STR_a),
      Transaction(<<2024, 2, 1>>, STR_income, float_0_7, STR_a),
      Transaction(<<2024, 1, 10>>, STR_income, float_0_3, STR_a),
      Transaction(<<2024, 1, 10>>, STR_income, float_0_7, STR_b) }

\* a tracker without a file: FinanceTracker() and
\* ReportingAndAnalysis(None, tracker, False)
InitFloat ==
    /\ transactions = <<>>
    /\ file = NoFile
    /\ use_file = FALSE
    /\ pc = "run"
    /\ entered = 0
    /\ last = NoCall

AddTransactionFloat(txn) ==
    /\ Len(transactions) < MaxLedger
    /\ transactions' = add_transaction(transactions, txn)
    /\ last' = NoCall
    /\ UNCHANGED <<file, use_file, pc, entered>>

BasisResultFloat(op, txns, txn_type) ==
    CASE op = "monthly_basis"                 -> monthly_basis_float(txns, txn_type)
      [] op = "monthly_categories_basis"      -> monthly_categories_basis_float(txns, txn_type)
      [] op = "totals_each_txn_type_category" ->
             totals_each_txn_type_category_float(txns, txn_type)

BasisFloat(op, txn_type) ==
    /\ LET s == sync_transactions(use_file, file, transactions)
       IN  /\ transactions' = s.transactions
           /\ last' = Call(op, <<txn_type>>, s.err,
                           BasisResultFloat(op, s.transactions, txn_type))
    /\ UNCHANGED <<file, use_file, pc, entered>>

NextFloat ==
    \/ \E txn \in FloatInputs : AddTransactionFloat(txn)
    \/ \E op \in BasisOps : BasisFloat(op, STR_income)

SpecFloat == InitFloat /\ [][NextFloat]_vars


(***************************************************************************)
(* Properties.  Helpers used only to state them.                           *)
(***************************************************************************)
RECURSIVE SumAmounts(_)
SumAmounts(txns) ==
    IF txns = <<>> THEN 0 ELSE Head(txns).amount + SumAmounts(Tail(txns))

RECURSIVE SumValues(_)
SumValues(d) == IF d = <<>> THEN 0 ELSE Head(d)[2] + SumValues(Tail(d))

TxnsOf(txns, kind) == SelectSeq(txns, LAMBDA t : t.txn_type = kind)

KeySet(d) == {d[i][1] : i \in 1..Len(d)}

UniqueKeys(d) == \A i, j \in 1..Len(d) : d[i][1] = d[j][1] => i = j

Returned(op) == pc = "run" /\ last.op = op /\ last.err = "none"

KindOf(op) ==
    IF op \in {"monthly_income", "monthly_income_categories",
               "totals_each_income_category"}
    THEN STR_income ELSE STR_expense

\* C1: monthly_net_savings() has a key k iff k is a key of both
\* monthly_income() and monthly_expenses(); the value at k is income[k] minus
\* expense[k]; a month with only income or only expenses is absent.
C1_NetSavingsIsIntersection ==
    Returned("monthly_net_savings") =>
        LET r   == last.result
            inc == monthly_income(transactions)
            exp == monthly_expenses(transactions)
        IN  /\ UniqueKeys(r)
            /\ KeySet(r) = KeySet(inc) \cap KeySet(exp)
            /\ \A i \in 1..Len(r) :
                  r[i][2] = DictGet(inc, r[i][1]) - DictGet(exp, r[i][1])

\* a net-savings result with a month in it and an income-only month left out
C1_Witness ==
    /\ Returned("monthly_net_savings")
    /\ last.result # <<>>
    /\ KeySet(monthly_income(transactions)) \ KeySet(last.result) # {}

\* C2 (as claimed): the 2-decimal balance equals the 2-decimal total income
\* minus the 2-decimal total expenses, for every reachable ledger.
C2_BalanceIsIncomeMinusExpenses ==
    Returned("totals") =>
        last.result.balance = last.result.income - last.result.expenses

Before(txns, n, m) ==
    \/ DateLess(txns[n].date, txns[m].date)
    \/ (txns[n].date = txns[m].date /\ n < m)

\* the transactions at the indices in M, ascending by date, equal dates in
\* ledger order
InDateOrder(txns, M) ==
    [p \in 1..Cardinality(M) |->
        txns[CHOOSE n \in M : Cardinality({m \in M : Before(txns, m, n)}) = p - 1]]

\* C4: date_filter(start, end) returns exactly the transactions with
\* start <= date <= end, date_filter(start) those with date = start, sorted
\* ascending by date with equal dates in ledger order; start > end gives the
\* empty list; date_filter(d, d) equals date_filter(d).
C4_DateFilter ==
    Returned("date_filter") =>
        LET date1 == last.args[1]
            date2 == last.args[2]
            start == Strptime(date1)
            M == {n \in 1..Len(transactions) :
                    IF date2 = None THEN transactions[n].date = start
                    ELSE /\ ~DateLess(transactions[n].date, start)
                         /\ ~DateLess(Strptime(date2), transactions[n].date)}
        IN  /\ last.result = InDateOrder(transactions, M)
            /\ (date2 # None /\ DateLess(Strptime(date2), start)) => last.result = <<>>
            /\ date2 = date1 => last.result = date_filter(transactions, date1, None)

\* a range filter that returned two transactions in another order than the
\* ledger holds them
C4_Witness ==
    /\ Returned("date_filter")
    /\ last.args[2] # None
    /\ Len(last.result) >= 2
    /\ \E n, m \in 1..Len(transactions) :
          /\ n < m
          /\ last.result[1] = transactions[m]
          /\ last.result[2] = transactions[n]
          /\ transactions[n] # transactions[m]

\* what the call `op(args)` returns on the ledger txns
ReportResult(op, args, txns) ==
    IF op = "export_analysis" THEN export_analysis(txns)
    ELSE IF op = "export_filters" THEN export_filters(txns, args[1], args[2], args[3])
    ELSE AggregateResult(op, txns)

\* C5: with use_file = True every aggregate and both exports compute their
\* result from the ledger as rebuilt from the file at the moment of the call,
\* so a record appended to the file since the call before is reflected and
\* ledger entries that are not in the file are not.
C5_ReportsComeFromFile ==
    (use_file /\ pc = "run" /\ last.err = "none"
       /\ last.op \in AggregateOps \cup {"export_analysis", "export_filters"}) =>
        /\ read_transaction(file, <<>>).err = "none"
        /\ last.result =
              ReportResult(last.op, last.args, read_transaction(file, <<>>).transactions)

\* monthly income read back from the file after 1.004 was entered for
\* December 2023: the result shows the file's 1.00, not the ledger's 1.004
C5_Witness ==
    /\ use_file
    /\ entered >= 1
    /\ Returned("monthly_income")
    /\ \E i \in 1..Len(last.result) : last.result[i] = <<<<2023, 12>>, 1000>>

\* C6 (as claimed): every transaction in the ledger has kind income or
\* expense, however it arrived.
C6_KindIsIncomeOrExpense ==
    \A i \in 1..Len(transactions) :
        transactions[i].txn_type \in {STR_income, STR_expense}

\* C7 (as claimed): category_filter(category) returns exactly the
\* transactions whose lower-cased category equals the lower-cased argument,
\* in ledger order.
C7_CategoryFilterIgnoresCase ==
    Returned("category_filter") =>
        last.result = SelectSeq(transactions,
                                LAMBDA t : Lower(t.category) = Lower(last.args[1]))

\* C8 (as claimed): the keys of the per-category totals map are iterated in
\* case-normalized alphabetical order, categories that differ only in case
\* being one key.
C8_CategoryKeysInNormalizedOrder ==
    \A op \in {"totals_each_income_category", "totals_each_expense_category"} :
        Returned(op) =>
            \A i \in 1..(Len(last.result) - 1) :
                SeqLess(Lower(last.result[i][1]), Lower(last.result[i + 1][1]))

MonthKey(t) == <<t.date.year, t.date.month>>

\* C9: the monthly totals map has one key per (year, month) that holds a
\* transaction of the kind and no other key, each value is the sum of the
\* amounts of the kind in that month, and the keys are iterated in strictly
\* increasing (year, month) order.
C9_MonthlyTotals ==
    \A op \in {"monthly_income", "monthly_expenses"} :
        Returned(op) =>
            LET r    == last.result
                mine == TxnsOf(transactions, KindOf(op))
            IN  /\ UniqueKeys(r)
                /\ KeySet(r) = {MonthKey(mine[i]) : i \in 1..Len(mine)}
                /\ \A i \in 1..Len(r) :
                      r[i][2] = SumAmounts(SelectSeq(mine,
                                    LAMBDA t : MonthKey(t) = r[i][1]))
                /\ \A i \in 1..(Len(r) - 1) :
                      \/ r[i][1][1] < r[i + 1][1][1]
                      \/ (r[i][1][1] = r[i + 1][1][1] /\ r[i][1][2] < r[i + 1][1][2])

\* monthly income over two years, one month summing two transactions, held
\* by the ledger in another order than by month
C9_Witness ==
    /\ Returned("monthly_income")
    /\ Len(last.result) >= 2
    /\ last.result[1][1][1] < last.result[2][1][1]
    /\ \E n, m \in 1..Len(transactions) :
          /\ n < m
          /\ transactions[n].txn_type = STR_income
          /\ transactions[m].txn_type = STR_income
          /\ SeqLess(MonthKey(transactions[m]), MonthKey(transactions[n]))
    /\ \E n, m \in 1..Len(transactions) :
          /\ n < m
          /\ transactions[n].txn_type = STR_income
          /\ transactions[m].txn_type = STR_income
          /\ MonthKey(transactions[m]) = MonthKey(transactions[n])

\* C10: an aggregate called twice in succession, with no transaction added
\* in between, returns equal results, with and without use_file.
C10_AggregateTwiceIsEqual ==
    [][(last.op \in AggregateOps /\ last'.op = last.op) =>
          (last'.err = last.err /\ last'.result = last.result)]_vars

\* with use_file, the second of two calls of one aggregate, the first being
\* the first call after transactions were entered
C10_Witness ==
    /\ use_file
    /\ entered >= 1
    /\ pc = "run"
    /\ last.op \in AggregateOps
    /\ last.again
    /\ last.err = "none"
    /\ last.result # <<>>

\* C11 (as claimed): an aggregate called with a kind that is neither income
\* nor expense fails with an error instead of returning a result.
C11_InvalidKindFails ==
    (pc = "run" /\ last.op \in BasisOps
       /\ last.args[1] \notin {STR_income, STR_expense}) =>
        last.err # "none"

LedgerOps == {"totals", "category_filter", "date_filter"}

\* C12 (as claimed): no ledger operation fails, whatever the ledger holds and
\* whatever the arguments; a malformed date is never the cause of a failure
\* inside a filter, and nothing matching gives the empty list.
C12_LedgerOpsNeverFail ==
    (pc = "run" /\ last.op \in LedgerOps) => last.err = "none"

IsPrefix(s, t) == Len(s) <= Len(t) /\ SubSeq(t, 1, Len(s)) = s

\* C13 (as claimed): every operation leaves the ledger's sequence unchanged or
\* extends it by exactly one element at the end; filters, totals, aggregates
\* and exports never remove, replace or reorder an entry, so the ledger before
\* an operation is a prefix of the ledger after it.
C13_LedgerOnlyGrowsAtEnd ==
    [][pc = "run" =>
         /\ IsPrefix(transactions, transactions')
         /\ Len(transactions') <= Len(transactions) + 1]_vars

\* the rows of a written file, cut at its blank rows
BlankAt(rows) == {i \in 1..Len(rows) : rows[i] = BlankRow}

NthBlank(rows, k) ==
    CHOOSE i \in BlankAt(rows) : Cardinality({j \in BlankAt(rows) : j < i}) = k - 1

\* the k-th run of non-blank rows (k = 1 is what precedes the first blank row)
Segment(rows, k) ==
    LET lo == IF k = 1 THEN 1 ELSE NthBlank(rows, k - 1) + 1
        hi == IF k > Cardinality(BlankAt(rows)) THEN Len(rows)
              ELSE NthBlank(rows, k) - 1
    IN  SubSeq(rows, lo, hi)

\* the transactions the k-th section of export_filters lists
FilterSectionTxns(k, txns, category, date1, date2) ==
    CASE k = 1 -> category_filter(txns, category)
      [] k = 2 -> date_filter(txns, date1, date2)
      [] k = 3 -> date_income_filter(txns, date1, date2)
      [] k = 4 -> date_expense_filter(txns, date1, date2)
      [] k = 5 -> date_category_filter(txns, date1, date2, category)

\* the text of the header of the k-th section
FilterSectionLabel(k, date2) ==
    CASE k = 1 -> "Transactions filter:"
      [] k = 2 -> IF date2 = None THEN "Transactions on" ELSE "Transactions from to"
      [] k = 3 -> IF date2 = None THEN "Income transactions on"
                  ELSE "Income transactions from to"
      [] k = 4 -> IF date2 = None THEN "Expense transactions on"
                  ELSE "Expense transactions from to"
      [] k = 5 -> IF date2 = None THEN "transactions on" ELSE "transactions from to"

\* the k-th run of rows is the k-th section: its header, then its rows
IsFilterSection(seg, k, txns, category, date1, date2) ==
    /\ Len(seg) >= 1
    /\ seg[1].label = FilterSectionLabel(k, date2)
    /\ seg[1].fmt = ""
    /\ k > 1 => (seg[1].date = date1 /\ seg[1].date2 = date2)
    /\ Tail(seg) = FilterRows(FilterSectionTxns(k, txns, category, date1, date2))

FiveFilterSections(rows, txns, args) ==
    \A k \in 1..5 : IsFilterSection(Segment(rows, k), k, txns, args[1], args[2], args[3])

\* C14 (as claimed): export_filters writes five sections in order, each one
\* its header row, its matching rows and then a blank separator row, the
\* last section included.
C14_EverySectionEndsWithBlankRow ==
    Returned("export_filters") =>
        /\ Cardinality(BlankAt(last.result)) = 5
        /\ last.result[Len(last.result)] = BlankRow
        /\ FiveFilterSections(last.result, transactions, last.args)

\* C14 (amended): export_filters writes five sections in order (category,
\* dates, income by dates, expenses by dates, category by dates), each one its
\* header row ("on" when there is no end date, "from .. to" otherwise)
\* followed by its matching rows; a blank row follows each of the first four
\* sections and nothing follows the rows of the last one.
C14_FiveSectionsSeparatedByBlankRows ==
    Returned("export_filters") =>
        /\ Cardinality(BlankAt(last.result)) = 4
        /\ last.result[Len(last.result)] # BlankRow
        /\ FiveFilterSections(last.result, transactions, last.args)

\* a range export whose last section lists a transaction and whose income
\* section lists none
C14_Witness ==
    /\ Returned("export_filters")
    /\ last.args[3] # None
    /\ Len(Segment(last.result, 5)) >= 2
    /\ Len(Segment(last.result, 3)) = 1
    /\ Len(Segment(last.result, 4)) >= 2

\* the aggregates export_analysis lists, in the order of its sections, and
\* the text of their header rows
AnalysisOps ==
    <<"monthly_net_savings", "monthly_income", "monthly_expenses",
      "totals_each_income_category", "totals_each_expense_category",
      "monthly_income_categories", "monthly_expenses_categories">>

AnalysisLabels ==
    <<"Monthly Net Savings", "Monthly Income", "Monthly Expenses",
      "Totals for Each Income Category", "Totals for Each Expense Category",
      "Monthly Income by Category", "Monthly Expenses by Category">>

\* a body row of the k-th section shows one item of its aggregate
RowShows(row, k, item) ==
    CASE k \in 1..3 -> row.date = item[1] /\ row.value = item[2] /\ row.cat = <<>>
      [] k \in 4..5 -> row.cat = item[1] /\ row.value = Format2(item[2])
                       /\ row.date = <<>>
      [] k \in 6..7 -> row.date = item[1][1] /\ row.cat = item[1][2]
                       /\ row.value = item[2]

IsAnalysisSection(seg, k, txns) ==
    LET d == AggregateResult(AnalysisOps[k], txns)
    IN  /\ Len(seg) = 1 + Len(d)
        /\ seg[1] = HeaderRow(AnalysisLabels[k])
        /\ \A i \in 1..Len(d) : RowShows(seg[i + 1], k, d[i])

\* C15: export_analysis writes the balance, the total income and the total
\* expenses first, then the seven sections in the order monthly net savings,
\* monthly income, monthly expenses, income totals by category, expense totals
\* by category, monthly income by category, monthly expenses by category;
\* each section is a blank row, its header row and its body rows, also when
\* it has no body rows.
C15_AnalysisLayout ==
    Returned("export_analysis") =>
        LET rows == last.result
        IN  /\ Cardinality(BlankAt(rows)) = 7
            /\ Segment(rows, 1) =
                 <<TotalRow("Current Balance:", calc_current_balance(transactions)),
                   TotalRow("Total Income:", get_total_income(transactions)),
                   TotalRow("Total Expenses:", get_total_expenses(transactions))>>
            /\ \A k \in 1..7 : IsAnalysisSection(Segment(rows, k + 1), k, transactions)

\* an export in which the expense sections have no body rows and the income
\* sections have some
C15_Witness ==
    /\ Returned("export_analysis")
    /\ Len(Segment(last.result, 3)) >= 2
    /\ Len(Segment(last.result, 4)) = 1
    /\ Len(Segment(last.result, 2)) = 1
    /\ Len(Segment(last.result, 7)) >= 2

\* every line after the first is a well-formed data row
ReadableFile(f) == \A i \in 2..Len(f.lines) : RowOk(f.lines[i])

\* C16 (as claimed): whatever the file was at the start (absent, existing but
\* empty, data rows without a header, with a header), a read_transaction after
\* appends adds every appended transaction, in append order, with its date,
\* kind and category and its amount rounded to 2 decimals: each
\* append_transaction adds exactly that transaction to the end of what
\* read_transaction reads, and none is consumed as the header.
C16_AppendedIsReadBack ==
    [][(file' # file /\ ReadableFile(file)) =>
         LET before == read_transaction(file, <<>>)
             after  == read_transaction(file', <<>>)
             txn    == transactions'[Len(transactions')]
         IN  /\ after.err = "none"
             /\ after.transactions =
                  before.transactions \o <<[txn EXCEPT !.amount = Round2(@)]>>]_vars

\* sum(values), the float sum in the order of the list
FSum(values) ==
    LET f[i \in 1..Len(values)] ==
            IF i = 1 THEN values[1] ELSE FAdd(f[i - 1], values[i])
    IN  f[Len(values)]

ValuesOf(items) == [i \in 1..Len(items) |-> items[i][2]]

\* C17 (as claimed): for every ledger and each kind the three groupings
\* agree: the monthly-by-category totals of a month sum to the monthly total
\* of that month, those of a category sum to the category total, and the
\* months of the monthly-by-category map are the keys of the monthly totals.
C17_GroupingsAgree ==
    (last.op = "monthly_categories_basis" /\ last.err = "none") =>
        LET r        == last.result
            kind     == last.args[1]
            months   == monthly_basis_float(transactions, kind)
            cats     == totals_each_txn_type_category_float(transactions, kind)
        IN  /\ {r[i][1][1] : i \in 1..Len(r)} = KeySet(months)
            /\ \A i \in 1..Len(months) :
                  FSum(ValuesOf(SelectSeq(r, LAMBDA it : it[1][1] = months[i][1])))
                      = months[i][2]
            /\ \A i \in 1..Len(cats) :
                  FSum(ValuesOf(SelectSeq(r, LAMBDA it : it[1][2] = cats[i][1])))
                      = cats[i][2]

\* the step is a load that failed: read_transaction called at the start, or
\* an aggregate or export whose _sync_transactions failed
LoadFailed ==
    /\ last'.err # "none"
    /\ last'.op \in {"read_transaction", "export_analysis"} \cup AggregateOps \cup BasisOps

\* C18 (as claimed): loading is all-or-nothing; when read_transaction fails
\* (unparseable date, non-numeric amount, too few columns, empty file), the
\* ledger is left exactly as it was before the call, directly or from
\* _sync_transactions: no partly loaded prefix remains and no transaction
\* held before is lost.
C18_FailedLoadLeavesLedger ==
    [][LoadFailed => transactions' = transactions]_vars

====
